---- MODULE Spec2Model ----
(***************************************************************************)
(* gittree (Go backend): cmd/gittree/main.go, internal/git (Repository),   *)
(* internal/ui (SimpleApp), internal/config.                               *)
(*                                                                         *)
(* Text is modelled as a sequence of one-character strings, so that        *)
(* strings.Split, strings.TrimSpace, strings.Fields, time.Parse and the    *)
(* rune loop of parseGraphLine are computed character by character.        *)
(* Instants are minutes since 0000-01-01 00:00 UTC (seconds are dropped).  *)
(***************************************************************************)
EXTENDS Integers, Sequences, FiniteSets, TLC

(***************************************************************************)
(* Bounds of the model.                                                    *)
(***************************************************************************)
MaxLines == 3
MaxActions == 2
MaxLoads == 2
MaxPrefix == 3
MaxPaths == 3

(***************************************************************************)
(* strings: TrimSpace, Split, Fields.                                      *)
(***************************************************************************)
IsSpace(c) == c = " "

DigitChars == <<"0", "1", "2", "3", "4", "5", "6", "7", "8", "9">>

IsDigitChar(c) == \E k \in 1..Len(DigitChars) : DigitChars[k] = c

DigitVal(c) == (CHOOSE k \in 1..Len(DigitChars) : DigitChars[k] = c) - 1

RECURSIVE TrimLeft(_)
TrimLeft(s) == IF s # <<>> /\ IsSpace(Head(s)) THEN TrimLeft(Tail(s)) ELSE s

RECURSIVE TrimRight(_)
TrimRight(s) ==
  IF s # <<>> /\ IsSpace(s[Len(s)]) THEN TrimRight(SubSeq(s, 1, Len(s) - 1)) ELSE s

TrimSpace(s) == TrimRight(TrimLeft(s))

\* index of the first occurrence of character c in s, 0 when there is none
IndexOf(s, c) ==
  IF \E i \in 1..Len(s) : s[i] = c
  THEN CHOOSE i \in 1..Len(s) : s[i] = c /\ \A j \in 1..(i - 1) : s[j] # c
  ELSE 0

RECURSIVE Split(_, _)
Split(s, sep) ==
  LET i == IndexOf(s, sep)
  IN IF i = 0 THEN <<s>>
     ELSE <<SubSeq(s, 1, i - 1)>> \o Split(SubSeq(s, i + 1, Len(s)), sep)

RECURSIVE Fields(_)
Fields(s) ==
  LET t == TrimLeft(s)
      i == IndexOf(t, " ")
  IN IF t = <<>> THEN <<>>
     ELSE IF i = 0 THEN <<t>>
     ELSE <<SubSeq(t, 1, i - 1)>> \o Fields(SubSeq(t, i, Len(t)))

RECURSIVE Join(_, _)
Join(parts, sep) ==
  IF parts = <<>> THEN <<>>
  ELSE IF Len(parts) = 1 THEN parts[1]
  ELSE parts[1] \o sep \o Join(Tail(parts), sep)

(***************************************************************************)
(* time.Parse, for the layouts this program passes to it.                  *)
(***************************************************************************)
RFC3339 ==
  <<"2", "0", "0", "6", "-", "0", "1", "-", "0", "2", "T", "1", "5", ":", "0", "4",
    ":", "0", "5", "Z", "0", "7", ":", "0", "0">>

LayoutDate == <<"2", "0", "0", "6", "-", "0", "1", "-", "0", "2">>

LayoutDateTime == LayoutDate \o <<" ", "1", "5", ":", "0", "4", ":", "0", "5">>

LayoutIso == LayoutDateTime \o <<" ", "-", "0", "7", "0", "0">>

LayoutIsoColon == LayoutDateTime \o <<" ", "-", "0", "7", ":", "0", "0">>

HasAt(l, i, p) == i + Len(p) - 1 <= Len(l) /\ SubSeq(l, i, i + Len(p) - 1) = p

NoStd == [name |-> "none", len |-> 0]

\* the layout element that starts at position i of layout l (nextStdChunk)
StdAt(l, i) ==
  LET c == l[i]
      nxt == IF i + 1 <= Len(l) THEN l[i + 1] ELSE ""
  IN CASE c = "0" /\ nxt = "1" -> [name |-> "stdZeroMonth", len |-> 2]
       [] c = "0" /\ nxt = "2" -> [name |-> "stdZeroDay", len |-> 2]
       [] c = "0" /\ nxt = "3" -> [name |-> "stdZeroHour12", len |-> 2]
       [] c = "0" /\ nxt = "4" -> [name |-> "stdZeroMinute", len |-> 2]
       [] c = "0" /\ nxt = "5" -> [name |-> "stdZeroSecond", len |-> 2]
       [] c = "0" /\ nxt = "6" -> [name |-> "stdYear", len |-> 2]
       [] c = "1" -> IF nxt = "5" THEN [name |-> "stdHour", len |-> 2]
                     ELSE [name |-> "stdNumMonth", len |-> 1]
       [] c = "2" -> IF HasAt(l, i, <<"2", "0", "0", "6">>)
                     THEN [name |-> "stdLongYear", len |-> 4]
                     ELSE [name |-> "stdDay", len |-> 1]
       [] c = "3" -> [name |-> "stdHour12", len |-> 1]
       [] c = "4" -> [name |-> "stdMinute", len |-> 1]
       [] c = "5" -> [name |-> "stdSecond", len |-> 1]
       [] c = "-" -> IF HasAt(l, i, <<"-", "0", "7", "0", "0">>)
                     THEN [name |-> "stdNumTZ", len |-> 5]
                     ELSE IF HasAt(l, i, <<"-", "0", "7", ":", "0", "0">>)
                     THEN [name |-> "stdNumColonTZ", len |-> 6]
                     ELSE IF HasAt(l, i, <<"-", "0", "7">>)
                     THEN [name |-> "stdNumShortTZ", len |-> 3]
                     ELSE NoStd
       [] c = "Z" -> IF HasAt(l, i, <<"Z", "0", "7", ":", "0", "0">>)
                     THEN [name |-> "stdISO8601ColonTZ", len |-> 6]
                     ELSE IF HasAt(l, i, <<"Z", "0", "7", "0", "0">>)
                     THEN [name |-> "stdISO8601TZ", len |-> 5]
                     ELSE IF HasAt(l, i, <<"Z", "0", "7">>)
                     THEN [name |-> "stdISO8601ShortTZ", len |-> 3]
                     ELSE NoStd
       [] OTHER -> NoStd

RECURSIVE FindStd(_, _)
FindStd(l, i) ==
  IF i > Len(l) THEN 0
  ELSE IF StdAt(l, i).name # "none" THEN i
  ELSE FindStd(l, i + 1)

\* skip(value, prefix): a space of the layout matches any run of spaces
RECURSIVE Skip(_, _)
Skip(value, prefix) ==
  IF prefix = <<>> THEN [ok |-> TRUE, rest |-> value]
  ELSE IF Head(prefix) = " "
  THEN IF value # <<>> /\ Head(value) # " "
       THEN [ok |-> FALSE, rest |-> value]
       ELSE Skip(TrimLeft(value), TrimLeft(prefix))
  ELSE IF value = <<>> \/ Head(value) # Head(prefix)
  THEN [ok |-> FALSE, rest |-> value]
  ELSE Skip(Tail(value), Tail(prefix))

\* getnum(s, fixed): one or two digits
GetNum(s, fixed) ==
  IF s = <<>> \/ ~IsDigitChar(s[1]) THEN [ok |-> FALSE, n |-> 0, rest |-> s]
  ELSE IF Len(s) < 2 \/ ~IsDigitChar(s[2])
  THEN IF fixed THEN [ok |-> FALSE, n |-> 0, rest |-> s]
       ELSE [ok |-> TRUE, n |-> DigitVal(s[1]), rest |-> Tail(s)]
  ELSE [ok |-> TRUE, n |-> DigitVal(s[1]) * 10 + DigitVal(s[2]),
        rest |-> SubSeq(s, 3, Len(s))]

AllDigits(s) == \A i \in 1..Len(s) : IsDigitChar(s[i])

RECURSIVE Atoi(_)
Atoi(s) == IF s = <<>> THEN 0 ELSE Atoi(SubSeq(s, 1, Len(s) - 1)) * 10 + DigitVal(s[Len(s)])

IsLeap(y) == y % 4 = 0 /\ (y % 100 # 0 \/ y % 400 = 0)

DaysIn(m, y) ==
  IF m = 2 THEN (IF IsLeap(y) THEN 29 ELSE 28)
  ELSE IF m \in {4, 6, 9, 11} THEN 30 ELSE 31

RECURSIVE DaysBeforeMonth(_, _)
DaysBeforeMonth(m, y) == IF m <= 1 THEN 0 ELSE DaysBeforeMonth(m - 1, y) + DaysIn(m - 1, y)

DaysBeforeYear(y) == 365 * y + ((y + 3) \div 4) - ((y + 99) \div 100) + ((y + 399) \div 400)

MinutesPerDay == 24 * 60

\* time.Date(year, month, day, hour, min, 0, 0, UTC) as minutes since year 0
DateInstant(y, m, d, hh, mm) ==
  (DaysBeforeYear(y) + DaysBeforeMonth(m, y) + d - 1) * MinutesPerDay + hh * 60 + mm

ParseFail == [ok |-> FALSE, t |-> 0]

ZeroFields == [year |-> 0, month |-> -1, day |-> -1, hour |-> 0, min |-> 0, off |-> 0]

StFail(v, st) == [ok |-> FALSE, rest |-> v, st |-> st]

\* a numeric zone: sign, two digits of hours, (sep,) two digits of minutes
ParseZone(v, st, colon) ==
  LET need == IF colon THEN 6 ELSE 5
      mi == IF colon THEN 5 ELSE 4
  IN IF Len(v) < need THEN StFail(v, st)
     ELSE IF colon /\ v[4] # ":" THEN StFail(v, st)
     ELSE IF ~AllDigits(SubSeq(v, 2, 3)) \/ ~AllDigits(SubSeq(v, mi, mi + 1))
     THEN StFail(v, st)
     ELSE IF v[1] \notin {"+", "-"} THEN StFail(v, st)
     ELSE LET o == Atoi(SubSeq(v, 2, 3)) * 60 + Atoi(SubSeq(v, mi, mi + 1))
          IN [ok |-> TRUE, rest |-> SubSeq(v, need + 1, Len(v)),
              st |-> [st EXCEPT !.off = IF v[1] = "-" THEN 0 - o ELSE o]]

\* one layout element applied to the value (the switch of time.parse)
ParseStd(name, v, st) ==
  LET num(fixed, field, lo, hi) ==
        LET g == GetNum(v, fixed)
        IN IF ~g.ok \/ g.n < lo \/ g.n > hi THEN StFail(v, st)
           ELSE [ok |-> TRUE, rest |-> g.rest, st |-> [st EXCEPT ![field] = g.n]]
  IN CASE name = "stdLongYear" ->
            IF Len(v) < 4 \/ ~AllDigits(SubSeq(v, 1, 4)) THEN StFail(v, st)
            ELSE [ok |-> TRUE, rest |-> SubSeq(v, 5, Len(v)),
                  st |-> [st EXCEPT !.year = Atoi(SubSeq(v, 1, 4))]]
       [] name = "stdZeroMonth" -> num(TRUE, "month", 1, 12)
       [] name = "stdNumMonth" -> num(FALSE, "month", 1, 12)
       [] name = "stdZeroDay" -> num(TRUE, "day", 0, 99)
       [] name = "stdDay" -> num(FALSE, "day", 0, 99)
       [] name = "stdHour" -> num(FALSE, "hour", 0, 23)
       [] name = "stdHour12" -> num(FALSE, "hour", 0, 12)
       [] name = "stdZeroMinute" -> num(TRUE, "min", 0, 59)
       [] name = "stdZeroSecond" ->
            LET g == GetNum(v, TRUE)
            IN IF ~g.ok \/ g.n > 59 THEN StFail(v, st)
               ELSE [ok |-> TRUE, rest |-> g.rest, st |-> st]
       [] name = "stdISO8601ColonTZ" ->
            IF v # <<>> /\ v[1] = "Z"
            THEN [ok |-> TRUE, rest |-> Tail(v), st |-> st]
            ELSE ParseZone(v, st, TRUE)
       [] name = "stdNumColonTZ" -> ParseZone(v, st, TRUE)
       [] name = "stdNumTZ" -> ParseZone(v, st, FALSE)
       [] OTHER -> StFail(v, st)

\* the end of time.parse: defaults, the day-of-month check, the instant
FinishParse(st) ==
  LET m == IF st.month < 0 THEN 1 ELSE st.month
      d == IF st.day < 0 THEN 1 ELSE st.day
  IN IF d < 1 \/ d > DaysIn(m, st.year) THEN ParseFail
     ELSE [ok |-> TRUE, t |-> DateInstant(st.year, m, d, st.hour, st.min) - st.off]

RECURSIVE ParseFrom(_, _, _)
ParseFrom(l, v, st) ==
  LET i == FindStd(l, 1)
  IN IF i = 0
     THEN LET r == Skip(v, l)
          IN IF r.ok /\ r.rest = <<>> THEN FinishParse(st) ELSE ParseFail
     ELSE LET std == StdAt(l, i)
              r == Skip(v, SubSeq(l, 1, i - 1))
          IN IF ~r.ok THEN ParseFail
             ELSE LET p == ParseStd(std.name, r.rest, st)
                  IN IF ~p.ok THEN ParseFail
                     ELSE ParseFrom(SubSeq(l, i + std.len, Len(l)), p.rest, p.st)

\* time.Parse(layout, value)
TimeParse(layout, value) == ParseFrom(layout, value, ZeroFields)

(***************************************************************************)
(* cmd/gittree/main.go: parseTime.                                         *)
(***************************************************************************)
Formats ==
  <<RFC3339, LayoutDate, LayoutDateTime,
    <<"2", "w">>, <<"1", "w">>, <<"3", "d">>, <<"2", "d">>, <<"1", "d">>,
    <<"1", "2", "h">>, <<"6", "h">>, <<"1", "h">>>>

\* now.AddDate(0, 0, -days) and now.Add(-hours * time.Hour), in UTC
AddDays(t, days) == t + days * MinutesPerDay

AddHours(t, hours) == t + hours * 60

\* the switch on the relative forms, reached when no layout parsed s
RelativeTime(s, t) ==
  CASE s = <<"2", "w">> -> [ok |-> TRUE, t |-> AddDays(t, -14)]
    [] s = <<"1", "w">> -> [ok |-> TRUE, t |-> AddDays(t, -7)]
    [] s = <<"3", "d">> -> [ok |-> TRUE, t |-> AddDays(t, -3)]
    [] s = <<"2", "d">> -> [ok |-> TRUE, t |-> AddDays(t, -2)]
    [] s = <<"1", "d">> -> [ok |-> TRUE, t |-> AddDays(t, -1)]
    [] s = <<"1", "2", "h">> -> [ok |-> TRUE, t |-> AddHours(t, -12)]
    [] s = <<"6", "h">> -> [ok |-> TRUE, t |-> AddHours(t, -6)]
    [] s = <<"1", "h">> -> [ok |-> TRUE, t |-> AddHours(t, -1)]
    [] OTHER -> ParseFail

parseTime(s, t) ==
  LET hits == {k \in 1..Len(Formats) : TimeParse(Formats[k], s).ok}
  IN IF hits # {}
     THEN TimeParse(Formats[CHOOSE k \in hits : \A j \in hits : k <= j], s)
     ELSE RelativeTime(s, t)

(***************************************************************************)
(* internal/git: the Commit rows and the parser of git log --graph.        *)
(***************************************************************************)
GraphLineTypes ==
  {"GraphLineNone", "GraphLineVertical", "GraphLineHorizontal", "GraphLineCorner",
   "GraphLineMerge"}

\* the switch of parseGraphLine on one character, i the 0-based index
GraphLineOfChar(char, i) ==
  CASE char = " " -> [Type |-> "GraphLineNone", Lane |-> i, Merge |-> FALSE]
    [] char \in {"|", "*"} -> [Type |-> "GraphLineVertical", Lane |-> i, Merge |-> FALSE]
    [] char \in {"-", "_"} -> [Type |-> "GraphLineHorizontal", Lane |-> i, Merge |-> FALSE]
    [] char \in {"/", "\\"} -> [Type |-> "GraphLineCorner", Lane |-> i, Merge |-> FALSE]
    [] char = "+" -> [Type |-> "GraphLineMerge", Lane |-> i, Merge |-> TRUE]
    [] OTHER -> [Type |-> "GraphLineNone", Lane |-> i, Merge |-> FALSE]

parseGraphLine(graphStr) ==
  [i \in 1..Len(graphStr) |-> GraphLineOfChar(graphStr[i], i - 1)]

\* the two layouts parseGitLog tries on the date field
ParseCommitDate(dateStr) ==
  LET a == TimeParse(LayoutIso, dateStr)
  IN IF a.ok THEN a ELSE TimeParse(LayoutIsoColon, dateStr)

NoCommit ==
  [Hash |-> <<>>, ShortHash |-> <<>>, Message |-> <<>>, Author |-> <<>>, Email |-> <<>>,
   Date |-> 0, Parents |-> <<>>, Refs |-> {}, Lane |-> 0, Graph |-> <<>>, Line |-> 0]

\* the body of the scanner loop of parseGitLog on one line of text; n is the
\* number of the line in the output (kept in Line, which the program does not
\* have, to tell which line a row came from)
ParseLine(text, n) ==
  LET line == TrimSpace(text)
      parts == Split(line, "|")
      date == ParseCommitDate(parts[6])
      parentsStr == IF Len(parts) > 7 THEN parts[8] ELSE <<>>
  IN IF line = <<>> THEN [ok |-> FALSE, commit |-> NoCommit]
     ELSE IF Len(parts) < 7 THEN [ok |-> FALSE, commit |-> NoCommit]
     ELSE IF ~date.ok THEN [ok |-> FALSE, commit |-> NoCommit]
     ELSE [ok |-> TRUE,
           commit |->
             [Hash |-> parts[2], ShortHash |-> parts[3], Message |-> parts[7],
              Author |-> parts[4], Email |-> parts[5], Date |-> date.t,
              Parents |-> IF parentsStr # <<>> THEN Fields(parentsStr) ELSE <<>>,
              Refs |-> {}, Lane |-> 0, Graph |-> parseGraphLine(parts[1]),
              Line |-> n]]

\* the new row put in front of the list
PrependCommit(cs, c) == <<c>> \o cs

\* commits = append(commits, commit)
AppendCommit(cs, c) == Append(cs, c)

\* the column counted from one
LaneOfOneBased(c) ==
  LET hits == {i \in 1..Len(c.Graph) :
                 c.Graph[i].Type \in {"GraphLineVertical", "GraphLineMerge"}}
  IN IF hits = {} THEN c.Lane
     ELSE CHOOSE i \in hits : \A j \in hits : i <= j

\* the lane generateGraph gives one commit: the first vertical or merge column
LaneOf(c) ==
  LET hits == {i \in 1..Len(c.Graph) :
                 c.Graph[i].Type \in {"GraphLineVertical", "GraphLineMerge"}}
  IN IF hits = {} THEN c.Lane
     ELSE (CHOOSE i \in hits : \A j \in hits : i <= j) - 1

generateGraph(cs) == [i \in 1..Len(cs) |-> [cs[i] EXCEPT !.Lane = LaneOf(cs[i])]]

(***************************************************************************)
(* git log --graph --pretty=format:...: the text git writes for a history. *)
(* A history is a sequence of line templates; the commit of the k-th line  *)
(* has hash Hash(k), its parents are the commits of the next lines.        *)
(***************************************************************************)
PrettyFormat ==
  <<"%", "H", "|", "%", "h", "|", "%", "a", "n", "|", "%", "a", "e", "|", "%", "a", "d",
    "|", "%", "s", "|", "%", "P">>

\* strconv.Itoa
RECURSIVE Itoa(_)
Itoa(n) == IF n < 10 THEN <<DigitChars[n + 1]>> ELSE Itoa(n \div 10) \o <<DigitChars[(n % 10) + 1]>>

Hash(k) == Itoa(k) \o <<"f">>

ShortHash(k) == Itoa(k)

IsoDate ==
  <<"2", "0", "2", "5", "-", "0", "1", "-", "0", "1", " ", "1", "0", ":", "0", "0", ":",
    "0", "0", " ", "+", "0", "0", "0", "0">>

IsoDateInstant == DateInstant(2025, 1, 1, 10, 0)

\* the commit a template stands for when it is the k-th line of a text
CommitOf(tp, k) ==
  [Hash |-> IF tp.hash THEN Hash(k) ELSE <<>>,
   ShortHash |-> ShortHash(k),
   Author |-> tp.author, Email |-> <<"e">>, DateStr |-> IsoDate, Date |-> IsoDateInstant,
   Message |-> tp.subject,
   Parents |-> [j \in 1..tp.np |-> Hash(k + j)]]

\* a line of a history: a graph prefix and, on a commit line, the commit
LineOf(tp, k) == [kind |-> tp.kind, prefix |-> tp.prefix, commit |-> CommitOf(tp, k)]

Instantiate(tps) == [k \in 1..Len(tps) |-> LineOf(tps[k], k)]

\* git's expansion of the placeholders of a pretty format
RECURSIVE Expand(_, _)
Expand(fmt, c) ==
  IF fmt = <<>> THEN <<>>
  ELSE IF Head(fmt) # "%" \/ Len(fmt) < 2 THEN <<Head(fmt)>> \o Expand(Tail(fmt), c)
  ELSE IF fmt[2] = "H" THEN c.Hash \o Expand(SubSeq(fmt, 3, Len(fmt)), c)
  ELSE IF fmt[2] = "h" THEN c.ShortHash \o Expand(SubSeq(fmt, 3, Len(fmt)), c)
  ELSE IF fmt[2] = "s" THEN c.Message \o Expand(SubSeq(fmt, 3, Len(fmt)), c)
  ELSE IF fmt[2] = "P" THEN Join(c.Parents, <<" ">>) \o Expand(SubSeq(fmt, 3, Len(fmt)), c)
  ELSE IF fmt[2] = "a" /\ Len(fmt) >= 3 /\ fmt[3] = "n"
  THEN c.Author \o Expand(SubSeq(fmt, 4, Len(fmt)), c)
  ELSE IF fmt[2] = "a" /\ Len(fmt) >= 3 /\ fmt[3] = "e"
  THEN c.Email \o Expand(SubSeq(fmt, 4, Len(fmt)), c)
  ELSE IF fmt[2] = "a" /\ Len(fmt) >= 3 /\ fmt[3] = "d"
  THEN c.DateStr \o Expand(SubSeq(fmt, 4, Len(fmt)), c)
  ELSE <<Head(fmt)>> \o Expand(Tail(fmt), c)

\* one line of git log --graph: the graph prefix, then the formatted commit
RenderLine(ln, fmt) ==
  IF ln.kind = "commit" THEN ln.prefix \o Expand(fmt, ln.commit) ELSE ln.prefix

RenderLog(history, fmt) == [k \in 1..Len(history) |-> RenderLine(history[k], fmt)]

Tpl(prefix, author, subject, np) ==
  [kind |-> "commit", prefix |-> prefix, author |-> author, subject |-> subject,
   np |-> np, hash |-> TRUE]

GraphOnly(prefix) ==
  [kind |-> "graph", prefix |-> prefix, author |-> <<>>, subject |-> <<>>, np |-> 0,
   hash |-> TRUE]

\* a record whose identifier is missing
NoId(prefix) ==
  [kind |-> "commit", prefix |-> prefix, author |-> <<"A">>, subject |-> <<"s">>,
   np |-> 1, hash |-> FALSE]

PStar == <<"*", " ">>

PPipeStar == <<"|", " ", "*", " ">>

PStarPipe == <<"*", " ", "|", " ">>

PMerge == <<"*", " ", " ", " ">>

PPipeMerge == <<"|", " ", "*", " ", " ", " ">>

PFork == <<"|", "\\", " ", " ">>

\* the lines the parser is tried on: what git writes for commits in the first
\* and second lane, for merges, for an author and a subject that hold a '|',
\* a graph-only line, and two records without identifier
LinePool ==
  {Tpl(PStar, <<"A">>, <<"s">>, 1),
   Tpl(PStar, <<"A", "|", "B">>, <<"s">>, 0),
   Tpl(PPipeStar, <<"A">>, <<"s", "|", "t">>, 1),
   Tpl(PStarPipe, <<"A">>, <<"s">>, 1),
   Tpl(PMerge, <<"A">>, <<"s">>, 2),
   Tpl(PPipeMerge, <<"A">>, <<"s">>, 2),
   GraphOnly(PFork),
   NoId(PPipeStar),
   NoId(<<"|">>)}

SeqsUpTo(S, n) == UNION {[1..m -> S] : m \in 0..n}

(***************************************************************************)
(* The histories of the program runs: a linear history of five commits, a  *)
(* merge of two parents, and a history with commits in a second lane.      *)
(***************************************************************************)
CommitLine(prefix, id, parents) ==
  [kind |-> "commit", prefix |-> prefix,
   commit |-> [Hash |-> Hash(id), ShortHash |-> ShortHash(id), Author |-> <<"A">>,
               Email |-> <<"e">>, DateStr |-> IsoDate, Date |-> IsoDateInstant,
               Message |-> <<"s">>, Parents |-> [j \in 1..Len(parents) |-> Hash(parents[j])]]]

GraphLine(prefix) == LineOf(GraphOnly(prefix), 1)

PJoin == <<"|", "/", " ", " ">>

RepoLinear5 ==
  <<CommitLine(PStar, 1, <<2>>), CommitLine(PStar, 2, <<3>>), CommitLine(PStar, 3, <<4>>),
    CommitLine(PStar, 4, <<5>>), CommitLine(PStar, 5, <<>>)>>

RepoMerge ==
  <<CommitLine(PMerge, 3, <<2, 1>>), GraphLine(PFork), CommitLine(PStarPipe, 2, <<1>>),
    GraphLine(PJoin), CommitLine(PStar, 1, <<>>)>>

RepoSide ==
  <<CommitLine(PMerge, 1, <<2, 3>>), GraphLine(PFork), CommitLine(PPipeStar, 3, <<4>>),
    CommitLine(PStarPipe, 2, <<4>>), GraphLine(PJoin), CommitLine(PStar, 4, <<>>)>>

Repos == {RepoLinear5, RepoMerge, RepoSide}

\* the rows SimpleApp.Run prints
ViewRows == 10

LongSide == 2 * ViewRows + 1

\* a merge whose second parent is a side branch of LongSide commits, all of
\* them newer than the first parent
RepoLong ==
  <<CommitLine(PMerge, 1, <<2, 3>>), GraphLine(PFork)>>
  \o [k \in 1..LongSide |-> CommitLine(PPipeStar, k + 2, <<k + 3>>)]
  \o <<CommitLine(PStarPipe, 2, <<LongSide + 3>>), GraphLine(PJoin),
       CommitLine(PStar, LongSide + 3, <<>>)>>

LoadRepos == Repos \cup {RepoLong}

IsCommitLine(ln) == ln.kind = "commit"

CommitCount(history) == Cardinality({k \in 1..Len(history) : IsCommitLine(history[k])})

\* git log -n N: the history up to its N-th commit (N = 0: no cap)
Cap(history, n) ==
  IF n = 0 \/ CommitCount(history) <= n THEN history
  ELSE LET last == CHOOSE k \in 1..Len(history) :
                     /\ IsCommitLine(history[k])
                     /\ CommitCount(SubSeq(history, 1, k)) = n
       IN SubSeq(history, 1, last)

(***************************************************************************)
(* GetCommits: the git log command line.                                   *)
(***************************************************************************)
ArgLog ==
  <<"l", "o", "g">>

ArgGraph ==
  <<"-", "-", "g", "r", "a", "p", "h">>

ArgDecorate ==
  <<"-", "-", "d", "e", "c", "o", "r", "a", "t", "e", "=", "f", "u", "l", "l">>

ArgDateOrder ==
  <<"-", "-", "d", "a", "t", "e", "-", "o", "r", "d", "e", "r">>

ArgPrettyKey ==
  <<"-", "-", "p", "r", "e", "t", "t", "y", "=", "f", "o", "r", "m", "a", "t", ":">>

ArgDateIso ==
  <<"-", "-", "d", "a", "t", "e", "=", "i", "s", "o">>

ArgAuthor ==
  <<"-", "-", "a", "u", "t", "h", "o", "r">>

ArgSep ==
  <<"-", "-">>

ArgSince ==
  <<"-", "-", "s", "i", "n", "c", "e">>

ArgUntil ==
  <<"-", "-", "u", "n", "t", "i", "l">>

ArgN ==
  <<"-", "n">>

ArgPretty == ArgPrettyKey \o PrettyFormat

Pad2(n) == <<DigitChars[(n \div 10) + 1], DigitChars[(n % 10) + 1]>>

Pad4(n) == Pad2(n \div 100) \o Pad2(n % 100)

Years == {0} \cup (2024..2028)

\* t.Format("2006-01-02"), for the instants of the years above
FormatDate(t) ==
  LET days == t \div MinutesPerDay
      y == CHOOSE yy \in Years : DaysBeforeYear(yy) <= days /\ days < DaysBeforeYear(yy + 1)
      rest == days - DaysBeforeYear(y)
      m == CHOOSE mm \in 1..12 :
             DaysBeforeMonth(mm, y) <= rest /\ rest < DaysBeforeMonth(mm, y) + DaysIn(mm, y)
  IN Pad4(y) \o <<"-">> \o Pad2(m) \o <<"-">> \o Pad2(rest - DaysBeforeMonth(m, y) + 1)

NoTime == [set |-> FALSE, t |-> 0]

NoFilter ==
  [Author |-> <<>>, Path |-> <<>>, Since |-> NoTime, Until |-> NoTime, Range |-> <<>>,
   MaxCommits |-> 0]

\* args as GetCommits appends them
BuildArgs(f) ==
  <<ArgLog, ArgGraph, ArgDecorate, ArgDateOrder, ArgPretty, ArgDateIso>>
    \o (IF f.Author # <<>> THEN <<ArgAuthor, f.Author>> ELSE <<>>)
    \o (IF f.Path # <<>> THEN <<ArgSep, f.Path>> ELSE <<>>)
    \o (IF f.Since.set THEN <<ArgSince, FormatDate(f.Since.t)>> ELSE <<>>)
    \o (IF f.Until.set THEN <<ArgUntil, FormatDate(f.Until.t)>> ELSE <<>>)
    \o (IF f.Range # <<>> THEN <<f.Range>> ELSE <<>>)
    \o (IF f.MaxCommits > 0 THEN <<ArgN, Itoa(f.MaxCommits)>> ELSE <<>>)

\* git's reading of a command line: what follows "--" is a list of paths
SepAt(a) == IndexOf(a, ArgSep)

Options(a) == IF SepAt(a) = 0 THEN a ELSE SubSeq(a, 1, SepAt(a) - 1)

\* the commit cap git applies: the value of a -n among the options, else none
EffectiveCap(a) ==
  LET o == Options(a)
      i == IndexOf(o, ArgN)
  IN IF i = 0 \/ i = Len(o) THEN 0 ELSE Atoi(o[i + 1])

\* the pretty format git is given
FormatArg(a) ==
  LET hits == {i \in 1..Len(Options(a)) : HasAt(a[i], 1, ArgPrettyKey)}
  IN IF hits = {} THEN <<>>
     ELSE LET i == CHOOSE j \in hits : TRUE
          IN SubSeq(a[i], Len(ArgPrettyKey) + 1, Len(a[i]))

\* the standard output of git log for a history
GitLogOutput(a, history) == RenderLog(Cap(history, EffectiveCap(a)), FormatArg(a))

(***************************************************************************)
(* internal/config: Default and Load; the configuration file is absent,    *)
(* unreadable, or a YAML document that sets some of the keys.              *)
(***************************************************************************)
DefaultConfig == [Style |-> "auto", ConfirmDangerous |-> TRUE]

CfgFiles ==
  {[state |-> "missing", keys |-> {}, style |-> "", confirm |-> FALSE],
   [state |-> "ok", keys |-> {"style"}, style |-> "dark", confirm |-> FALSE],
   [state |-> "ok", keys |-> {"style", "confirmDangerous"}, style |-> "dark",
    confirm |-> TRUE]}

\* yaml.Unmarshal into a zero Config, then the defaults of the empty strings
Load(file) ==
  IF file.state = "missing" THEN [err |-> FALSE, cfg |-> DefaultConfig]
  ELSE IF file.state = "unreadable" THEN [err |-> TRUE, cfg |-> DefaultConfig]
  ELSE LET style == IF "style" \in file.keys THEN file.style ELSE ""
           confirm == IF "confirmDangerous" \in file.keys THEN file.confirm ELSE FALSE
       IN [err |-> FALSE,
           cfg |-> [Style |-> IF style = "" THEN DefaultConfig.Style ELSE style,
                    ConfirmDangerous |-> confirm]]

\* main: Load, Default on error, then the --yes override
MainConfigOf(file, yes) ==
  LET l == Load(file)
      c == IF l.err THEN DefaultConfig ELSE l.cfg
  IN IF yes THEN [c EXCEPT !.ConfirmDangerous = FALSE] ELSE c

\* a reset that ignores the hash it is given
ResetHardHead(hash) == [cmd |-> "reset", opt |-> "--hard", rev |-> <<"H", "E", "A", "D">>]

\* the git command of Repository.ResetHard
ResetHard(hash) == [cmd |-> "reset", opt |-> "--hard", rev |-> hash]

\* the git commands of the other methods that change the repository
Checkout(hash) == [cmd |-> "checkout", opt |-> "", rev |-> hash]

CherryPick(hash) == [cmd |-> "cherry-pick", opt |-> "", rev |-> hash]

Revert(hash) == [cmd |-> "revert", opt |-> "", rev |-> hash]

CreateBranch(name, hash) == [cmd |-> "branch", opt |-> name, rev |-> hash]

CreateTag(name, hash) == [cmd |-> "tag", opt |-> name, rev |-> hash]

Mutations(hash, name) ==
  {Checkout(hash), ResetHard(hash), CherryPick(hash), Revert(hash),
   CreateBranch(name, hash), CreateTag(name, hash)}

(***************************************************************************)
(* State.                                                                  *)
(*   pc       where the program is                                         *)
(*   now      time.Now()                                                   *)
(*   argv     the command-line flags                                       *)
(*   cfgFile  ~/.config/gittree/config.yml                                 *)
(*   cfg      the Config main builds                                       *)
(*   caller, ctx   who called GetCommits, with which context               *)
(*   filter, args  FilterOptions and the git log command line              *)
(*   repo, refs    the repository: the history git lists, its references   *)
(*   src, output   the lines git wrote, as records and as text             *)
(*   cursor, commits, result   the scanner position, the rows, the return  *)
(*   nav, gitRuns  the navigator and the mutating git commands dispatched  *)
(*   timeIn, timeOut   argument and result of a parseTime call             *)
(***************************************************************************)
VARIABLES pc, now, argv, cfgFile, cfg, caller, ctx, filter, args, repo, refs, src,
          output, cursor, commits, result, nav, gitRuns, timeIn, timeOut, loads, mut,
          graphIn, graphOut, changes, details

vars ==
  <<pc, now, argv, cfgFile, cfg, caller, ctx, filter, args, repo, refs, src, output,
    cursor, commits, result, nav, gitRuns, timeIn, timeOut, loads, mut, graphIn, graphOut,
    changes, details>>

Nows ==
  {DateInstant(2026, 11, 3, 9, 30), DateInstant(2026, 11, 3, 21, 45),
   DateInstant(2026, 11, 4, 9, 30), DateInstant(2027, 3, 1, 0, 0)}

NowOfRun == DateInstant(2026, 11, 3, 9, 30)

RelativeInputs ==
  {<<"2", "w">>, <<"1", "w">>, <<"3", "d">>, <<"2", "d">>, <<"1", "d">>,
   <<"1", "2", "h">>, <<"6", "h">>, <<"1", "h">>, <<"4", "8", "h">>}

AbsoluteInputs ==
  {<<"2", "0", "2", "5", "-", "0", "1", "-", "0", "1">>,
   <<"2", "0", "2", "5", "-", "0", "1", "-", "0", "1", " ", "1", "0", ":", "0", "0", ":",
     "0", "0">>,
   <<"2", "0", "2", "5", "-", "0", "1", "-", "0", "1", "T", "1", "0", ":", "0", "0", ":",
     "0", "0", "Z">>,
   <<"2", "0", "2", "5", "-", "0", "1", "-", "0", "1", "T", "1", "0", ":", "0", "0", ":",
     "0", "0", "+", "0", "2", ":", "0", "0">>}

OtherInputs ==
  {<<"i", "n", "v", "a", "l", "i", "d">>, <<"1", "4", "w">>, <<"1", "2", "w">>,
   <<"9", "d">>, <<"0", "w">>, <<"3", "6", "h">>,
   <<"2", "0", "2", "5", "-", "0", "2", "-", "3", "0">>,
   <<"2", "0", "2", "5", "-", "1", "-", "1">>}

TimeInputs == RelativeInputs \cup AbsoluteInputs \cup OtherInputs

NoResult == [done |-> FALSE, ok |-> FALSE, t |-> 0]

NoDetails == [done |-> FALSE, err |-> FALSE, Files |-> <<>>]

\* two callers that share one Repository
Callers == {"a", "b"}

IdleCaller == [pc |-> "idle", cmd |-> [cmd |-> "", opt |-> "", rev |-> <<>>]]

IdleNav ==
  [state |-> "Idle", kind |-> "", target |-> <<>>, count |-> 0, confirmed |-> <<>>,
   generation |-> 1, rows |-> <<>>, rowsGen |-> 0]

HeadRefs ==
  {[name |-> "HEAD", kind |-> "symbolic", hash |-> <<>>, target |-> "refs/heads/main"],
   [name |-> "refs/heads/main", kind |-> "hash", hash |-> Hash(1), target |-> ""],
   [name |-> "refs/tags/v1", kind |-> "hash", hash |-> Hash(2), target |-> ""]}

Flags ==
  [since : {<<>>, <<"2", "w">>, <<"b", "a", "d">>},
   until : {<<>>, <<"2", "0", "2", "5", "-", "0", "1", "-", "0", "1">>},
   author : {<<>>, <<"a", "l">>},
   path : {<<>>, <<"s", "r", "c", "/">>},
   range : {<<>>, <<"a", ".", ".", "b">>, <<"-", "-", "a", "l", "l">>},
   maxCommits : {0, 2},
   yes : BOOLEAN]

NoFlags ==
  [since |-> <<>>, until |-> <<>>, author |-> <<>>, path |-> <<>>, range |-> <<>>,
   maxCommits |-> 0, yes |-> FALSE]

\* what every run starts from, whatever it is a run of
Blank ==
  /\ cfg = DefaultConfig
  /\ caller = ""
  /\ ctx = ""
  /\ filter = NoFilter
  /\ args = <<>>
  /\ refs = HeadRefs
  /\ cursor = 1
  /\ commits = <<>>
  /\ result = [done |-> FALSE, err |-> ""]
  /\ nav = IdleNav
  /\ gitRuns = <<>>
  /\ timeOut = NoResult
  /\ loads = <<>>
  /\ mut = [c \in Callers |-> IdleCaller]
  /\ graphOut = <<>>
  /\ details = NoDetails

\* the gittree process started in a repository with some flags
Init ==
  /\ pc = "start"
  /\ now = NowOfRun
  /\ argv \in Flags
  /\ cfgFile \in CfgFiles
  /\ repo \in Repos
  /\ src = <<>>
  /\ output = <<>>
  /\ timeIn = <<>>
  /\ graphIn = <<>>
  /\ changes = <<>>
  /\ Blank

\* GetCommits at the point where git has written a text of up to MaxLines lines
InitParse ==
  /\ pc = "scan"
  /\ now = NowOfRun
  /\ argv = NoFlags
  /\ cfgFile \in {f \in CfgFiles : f.state = "missing"}
  /\ src \in {Instantiate(tps) : tps \in SeqsUpTo(LinePool, MaxLines)}
  /\ repo = src
  /\ output = RenderLog(src, PrettyFormat)
  /\ timeIn = <<>>
  /\ graphIn = <<>>
  /\ changes = <<>>
  /\ Blank

\* parseTime called on a string at some time
InitTime ==
  /\ pc = "time"
  /\ now \in Nows
  /\ argv = NoFlags
  /\ cfgFile \in {f \in CfgFiles : f.state = "missing"}
  /\ repo = <<>>
  /\ src = <<>>
  /\ output = <<>>
  /\ timeIn \in TimeInputs
  /\ graphIn = <<>>
  /\ changes = <<>>
  /\ Blank

\* the graph prefixes parseGraphLine is tried on
GlyphAlphabet == {" ", "|", "*", "-", "/", "\\"}

PrefixInputs == SeqsUpTo(GlyphAlphabet, MaxPrefix)

\* the navigator about to load the rows of a repository
InitLoads ==
  /\ pc = "app"
  /\ now = NowOfRun
  /\ argv = NoFlags
  /\ cfgFile \in {f \in CfgFiles : f.state = "missing"}
  /\ repo \in LoadRepos
  /\ src = <<>>
  /\ output = <<>>
  /\ timeIn = <<>>
  /\ graphIn = <<>>
  /\ changes = <<>>
  /\ Blank

\* two callers about to call methods of one Repository
InitMutate ==
  /\ pc = "mutate"
  /\ now = NowOfRun
  /\ argv = NoFlags
  /\ cfgFile \in {f \in CfgFiles : f.state = "missing"}
  /\ repo = RepoMerge
  /\ src = <<>>
  /\ output = <<>>
  /\ timeIn = <<>>
  /\ graphIn = <<>>
  /\ changes = <<>>
  /\ Blank

\* parseGraphLine called on a graph prefix
InitGraph ==
  /\ pc = "graph"
  /\ now = NowOfRun
  /\ argv = NoFlags
  /\ cfgFile \in {f \in CfgFiles : f.state = "missing"}
  /\ repo = <<>>
  /\ src = <<>>
  /\ output = <<>>
  /\ timeIn = <<>>
  /\ graphIn \in PrefixInputs
  /\ changes = <<>>
  /\ Blank

\* the files of the trees of a commit and its first parent
Paths == SubSeq(<<"a", "b", "c", "d", "e">>, 1, MaxPaths)

ChangeKinds == {"none", "insert", "delete", "modify"}

\* a change of object.DiffTree: From and To are empty on the side where the
\* file does not exist
ChangeOf(kind, path) ==
  [From |-> [Name |-> IF kind = "insert" THEN "" ELSE path],
   To |-> [Name |-> IF kind = "delete" THEN "" ELSE path]]

\* object.DiffTree(parentTree, tree): one change for each file that differs,
\* in the order of the paths
RECURSIVE DiffTree(_, _)
DiffTree(kinds, k) ==
  IF k > Len(kinds) THEN <<>>
  ELSE (IF kinds[k] = "none" THEN <<>> ELSE <<ChangeOf(kinds[k], Paths[k])>>)
       \o DiffTree(kinds, k + 1)

\* the loop of GetCommitDetails over the changes
RECURSIVE FilesOf(_)
FilesOf(chs) ==
  IF chs = <<>> THEN <<>>
  ELSE (IF Head(chs).From.Name # "" THEN <<Head(chs).From.Name>> ELSE <<>>)
       \o (IF Head(chs).To.Name # "" THEN <<Head(chs).To.Name>> ELSE <<>>)
       \o FilesOf(Tail(chs))

\* GetCommitDetails called on a commit that changed some files
InitDetails ==
  /\ pc = "details"
  /\ now = NowOfRun
  /\ argv = NoFlags
  /\ cfgFile \in {f \in CfgFiles : f.state = "missing"}
  /\ repo = RepoMerge
  /\ src = <<>>
  /\ output = <<>>
  /\ timeIn = <<>>
  /\ graphIn = <<>>
  /\ changes \in {DiffTree(kinds, 1) : kinds \in [1..MaxPaths -> ChangeKinds]}
  /\ Blank

\* the values of --since and --until of the runs that build date arguments
DateFlags ==
  [since : {<<>>} \cup TimeInputs,
   until : {<<>>, <<"2", "0", "2", "5", "-", "0", "1", "-", "0", "1">>,
            <<"2", "0", "2", "5", "-", "0", "1", "-", "0", "1", " ", "1", "0", ":", "0",
              "0", ":", "0", "0">>},
   author : {<<>>}, path : {<<>>}, range : {<<>>}, maxCommits : {0}, yes : {FALSE}]

\* main after the configuration, about to parse its date flags
InitArgs ==
  /\ pc = "times"
  /\ now = NowOfRun
  /\ argv \in DateFlags
  /\ cfgFile \in {f \in CfgFiles : f.state = "missing"}
  /\ repo = RepoMerge
  /\ src = <<>>
  /\ output = <<>>
  /\ timeIn = <<>>
  /\ graphIn = <<>>
  /\ changes = <<>>
  /\ Blank

(***************************************************************************)
(* main.                                                                   *)
(***************************************************************************)
\* config.Load, config.Default on error, the flag overrides
MainConfig ==
  /\ pc = "start"
  /\ cfg' = MainConfigOf(cfgFile, argv.yes)
  /\ pc' = "times"
  /\ UNCHANGED <<now, argv, cfgFile, caller, ctx, filter, args, repo, refs, src, output,
                 cursor, commits, result, nav, gitRuns, timeIn, timeOut,
                 loads, mut, graphIn, graphOut,
                 changes, details>>

\* a date flag: unset when the flag is empty, else what parseTime makes of it
TimeFlag(s, t) ==
  IF s = <<>> THEN [ok |-> TRUE, t |-> 0] ELSE parseTime(s, t)

\* the FilterOptions main builds from the flags; ok is false when a date flag
\* is invalid
FilterOf(a, t) ==
  LET since == TimeFlag(a.since, t)
      until == TimeFlag(a.until, t)
  IN [ok |-> since.ok /\ until.ok,
      filter |-> [Author |-> a.author, Path |-> a.path,
                  Since |-> [set |-> a.since # <<>>, t |-> since.t],
                  Until |-> [set |-> a.until # <<>>, t |-> until.t],
                  Range |-> a.range, MaxCommits |-> a.maxCommits]]

\* the date filters (log.Fatal on an invalid one), NewRepository (log.Fatal
\* when it fails), the filter
MainFilter ==
  /\ pc = "times"
  /\ \E f \in {FilterOf(argv, now)} :
       \/ /\ ~f.ok
          /\ pc' = "fatal"
          /\ UNCHANGED filter
       \/ /\ f.ok
          /\ pc' = "fatal"
          /\ UNCHANGED filter
       \/ /\ f.ok
          /\ pc' = "app"
          /\ filter' = f.filter
  /\ UNCHANGED <<now, argv, cfgFile, cfg, caller, ctx, args, repo, refs, src, output,
                 cursor, commits, result, nav, gitRuns, timeIn, timeOut,
                 loads, mut, graphIn, graphOut,
                 changes, details>>

\* ui.NewSimpleApp(repo, cfg, filter).Run(): a.repo.GetCommits(nil, a.filter)
SimpleAppRun ==
  /\ pc = "app"
  /\ caller' = "Run"
  /\ ctx' = "nil"
  /\ pc' = "build"
  /\ UNCHANGED <<now, argv, cfgFile, cfg, filter, args, repo, refs, src, output, cursor,
                 commits, result, nav, gitRuns, timeIn, timeOut,
                 loads, mut, graphIn, graphOut,
                 changes, details>>

\* the interactive navigator loads its rows: GetCommits with a live context
NavigatorLoad ==
  /\ pc = "app"
  /\ caller' = "Navigator"
  /\ ctx' = "background"
  /\ pc' = "build"
  /\ UNCHANGED <<now, argv, cfgFile, cfg, filter, args, repo, refs, src, output, cursor,
                 commits, result, nav, gitRuns, timeIn, timeOut,
                 loads, mut, graphIn, graphOut,
                 changes, details>>

(***************************************************************************)
(* Repository.GetCommits.                                                  *)
(***************************************************************************)
GetCommitsArgs ==
  /\ pc = "build"
  /\ args' = BuildArgs(filter)
  /\ pc' = "exec"
  /\ UNCHANGED <<now, argv, cfgFile, cfg, caller, ctx, filter, repo, refs, src, output,
                 cursor, commits, result, nav, gitRuns, timeIn, timeOut,
                 loads, mut, graphIn, graphOut,
                 changes, details>>

\* the rows of the call before are kept and added to
KeepCommits(prev) == prev

\* the scanner stays where the call before left it
ResumeScanner(prev) == prev

\* var commits []*Commit: parseGitLog starts from no rows, whatever an
\* earlier call built
NewCommits(prev) == <<>>

\* bufio.NewScanner(strings.NewReader(output)): a scanner at the first line
NewScanner(prev) == 1

\* exec.CommandContext(ctx, "git", args...) panics on a nil context; else
\* cmd.Output() fails, or returns what git wrote and parseGitLog begins
GetCommitsExec ==
  /\ pc = "exec"
  /\ IF ctx = "nil"
     THEN /\ pc' = "panic"
          /\ UNCHANGED <<src, output, result, cursor, commits>>
     ELSE \/ /\ result' = [done |-> TRUE, err |-> "failed to execute git log"]
             /\ pc' = "returned"
             /\ UNCHANGED <<src, output, cursor, commits>>
          \/ /\ src' = Cap(repo, EffectiveCap(args))
             /\ output' = GitLogOutput(args, repo)
             /\ commits' = NewCommits(commits)
             /\ cursor' = NewScanner(cursor)
             /\ pc' = "scan"
             /\ result' = [done |-> FALSE, err |-> ""]
  /\ UNCHANGED <<now, argv, cfgFile, cfg, caller, ctx, filter, args, repo, refs, nav,
                 gitRuns, timeIn, timeOut, loads, mut, graphIn, graphOut,
                 changes, details>>

\* parseGitLog: one turn of the scanner loop
ScanLine ==
  /\ pc = "scan"
  /\ cursor <= Len(output)
  /\ LET r == ParseLine(output[cursor], cursor)
     IN commits' = IF r.ok THEN AppendCommit(commits, r.commit) ELSE commits
  /\ cursor' = cursor + 1
  /\ UNCHANGED <<pc, now, argv, cfgFile, cfg, caller, ctx, filter, args, repo, refs, src,
                 output, result, nav, gitRuns, timeIn, timeOut,
                 loads, mut, graphIn, graphOut,
                 changes, details>>

\* parseGitLog returns at the end of the text; generateGraph
GenerateGraph ==
  /\ pc = "scan"
  /\ cursor > Len(output)
  /\ commits' = generateGraph(commits)
  /\ pc' = "refs"
  /\ UNCHANGED <<now, argv, cfgFile, cfg, caller, ctx, filter, args, repo, refs, src,
                 output, cursor, result, nav, gitRuns, timeIn, timeOut,
                 loads, mut, graphIn, graphOut,
                 changes, details>>

\* the names of the hash references that point at a hash
RefNames(rs, hash) == {r.name : r \in {q \in rs : q.kind = "hash" /\ q.hash = hash}}

addRefs(cs, rs) ==
  [i \in 1..Len(cs) |->
     IF RefNames(rs, cs[i].Hash) # {} THEN [cs[i] EXCEPT !.Refs = RefNames(rs, cs[i].Hash)]
     ELSE cs[i]]

\* addRefs: r.repo.References() fails, or the refs are added; GetCommits returns
AddRefs ==
  /\ pc = "refs"
  /\ \/ /\ result' = [done |-> TRUE, err |-> "failed to add refs"]
        /\ UNCHANGED commits
     \/ /\ commits' = addRefs(commits, refs)
        /\ result' = [done |-> TRUE, err |-> ""]
  /\ pc' = "returned"
  /\ UNCHANGED <<now, argv, cfgFile, cfg, caller, ctx, filter, args, repo, refs, src,
                 output, cursor, nav, gitRuns, timeIn, timeOut,
                 loads, mut, graphIn, graphOut,
                 changes, details>>

\* the caller has the result: Run prints the rows and returns nil, or returns
\* the error and main ends with log.Fatal; the navigator presents the rows of
\* its current generation and goes to Idle
Deliver ==
  /\ pc = "returned"
  /\ pc' = IF caller = "Run" THEN (IF result.err = "" THEN "exit" ELSE "fatal")
           ELSE (IF result.err = "" THEN "idle" ELSE "fatal")
  /\ nav' = IF caller = "Navigator" /\ result.err = ""
            THEN [nav EXCEPT !.rows = commits, !.rowsGen = nav.generation]
            ELSE nav
  /\ loads' = IF result.err = ""
              THEN Append(loads, [args |-> args, output |-> output, rows |-> commits])
              ELSE loads
  /\ UNCHANGED <<now, argv, cfgFile, cfg, caller, ctx, filter, args, repo, refs, src,
                 output, cursor, commits, result, gitRuns, timeIn, timeOut, mut,
                 graphIn, graphOut,
                 changes, details>>

\* the filters the navigator applies while it runs
LoadFilters ==
  {NoFilter, [NoFilter EXCEPT !.MaxCommits = 2], [NoFilter EXCEPT !.Author = <<"a", "l">>]}

\* ApplyFilter (spec 4.3, 4.4): a new generation; the rows presented are
\* discarded and the commits are loaded again with the new filter
ApplyFilter ==
  /\ pc = "idle"
  /\ nav.state = "Idle"
  /\ Len(loads) < MaxLoads
  /\ \E f \in LoadFilters : filter' = f
  /\ nav' = [nav EXCEPT !.generation = @ + 1, !.rows = <<>>]
  /\ pc' = "build"
  /\ UNCHANGED <<now, argv, cfgFile, cfg, caller, ctx, args, repo, refs, src, output,
                 cursor, commits, result, gitRuns, timeIn, timeOut, loads, mut, graphIn,
                 graphOut,
                 changes, details>>

(***************************************************************************)
(* The navigator's destructive action (spec 4.3): reset on a selected row. *)
(***************************************************************************)
InvokeReset ==
  /\ pc = "idle"
  /\ nav.state = "Idle"
  /\ nav.count < MaxActions
  /\ \E i \in 1..Len(commits) :
       IF cfg.ConfirmDangerous
       THEN /\ nav' = [nav EXCEPT !.state = "ConfirmPending", !.kind = "reset",
                                  !.target = commits[i].Hash, !.count = @ + 1]
            /\ UNCHANGED gitRuns
       ELSE /\ gitRuns' = Append(gitRuns, ResetHard(commits[i].Hash))
            /\ nav' = [nav EXCEPT !.count = @ + 1]
  /\ UNCHANGED <<pc, now, argv, cfgFile, cfg, caller, ctx, filter, args, repo, refs, src,
                 output, cursor, commits, result, timeIn, timeOut,
                 loads, mut, graphIn, graphOut,
                 changes, details>>

Confirm ==
  /\ pc = "idle"
  /\ nav.state = "ConfirmPending"
  /\ gitRuns' = Append(gitRuns, ResetHard(nav.target))
  /\ nav' = [nav EXCEPT !.state = "Idle", !.kind = "", !.target = <<>>,
                        !.confirmed = Append(@, nav.target)]
  /\ UNCHANGED <<pc, now, argv, cfgFile, cfg, caller, ctx, filter, args, repo, refs, src,
                 output, cursor, commits, result, timeIn, timeOut,
                 loads, mut, graphIn, graphOut,
                 changes, details>>

Cancel ==
  /\ pc = "idle"
  /\ nav.state = "ConfirmPending"
  /\ nav' = [nav EXCEPT !.state = "Idle", !.kind = "", !.target = <<>>]
  /\ UNCHANGED <<pc, now, argv, cfgFile, cfg, caller, ctx, filter, args, repo, refs, src,
                 output, cursor, commits, result, gitRuns, timeIn, timeOut,
                 loads, mut, graphIn, graphOut,
                 changes, details>>

(***************************************************************************)
(* A call of parseTime.                                                    *)
(***************************************************************************)
ParseTimeCall ==
  /\ pc = "time"
  /\ LET r == parseTime(timeIn, now) IN timeOut' = [done |-> TRUE, ok |-> r.ok, t |-> r.t]
  /\ pc' = "timed"
  /\ UNCHANGED <<now, argv, cfgFile, cfg, caller, ctx, filter, args, repo, refs, src,
                 output, cursor, commits, result, nav, gitRuns, timeIn,
                 loads, mut, graphIn, graphOut,
                 changes, details>>

(***************************************************************************)
(* The methods that change the repository, called by two callers: each is  *)
(* exec.Command("git", ...) and cmd.Run(), which starts git and waits.     *)
(***************************************************************************)
MutationTargets == {Hash(1), Hash(2)}

MutationStart ==
  /\ pc = "mutate"
  /\ \E c \in Callers :
       /\ mut[c].pc = "idle"
       /\ \E h \in MutationTargets :
            \E m \in Mutations(h, <<"n">>) :
              mut' = [mut EXCEPT ![c] = [pc |-> "running", cmd |-> m]]
  /\ UNCHANGED <<pc, now, argv, cfgFile, cfg, caller, ctx, filter, args, repo, refs, src,
                 output, cursor, commits, result, nav, gitRuns, timeIn, timeOut, loads,
                 graphIn, graphOut,
                 changes, details>>

MutationFinish ==
  /\ pc = "mutate"
  /\ \E c \in Callers :
       /\ mut[c].pc = "running"
       /\ mut' = [mut EXCEPT ![c] = IdleCaller]
  /\ UNCHANGED <<pc, now, argv, cfgFile, cfg, caller, ctx, filter, args, repo, refs, src,
                 output, cursor, commits, result, nav, gitRuns, timeIn, timeOut, loads,
                 graphIn, graphOut,
                 changes, details>>

(***************************************************************************)
(* A call of parseGraphLine.                                               *)
(***************************************************************************)
ParseGraphCall ==
  /\ pc = "graph"
  /\ graphOut' = parseGraphLine(graphIn)
  /\ pc' = "graphed"
  /\ UNCHANGED <<now, argv, cfgFile, cfg, caller, ctx, filter, args, repo, refs, src,
                 output, cursor, commits, result, nav, gitRuns, timeIn, timeOut, loads, mut,
                 graphIn,
                 changes, details>>

(***************************************************************************)
(* Repository.GetCommitDetails.                                            *)
(***************************************************************************)
\* CommitObject fails and the error is returned; or commit.Tree() or DiffTree
\* fails and Files stays nil; or the names of the changes are collected
GetCommitDetails ==
  /\ pc = "details"
  /\ \/ details' = [done |-> TRUE, err |-> TRUE, Files |-> <<>>]
     \/ details' = [done |-> TRUE, err |-> FALSE, Files |-> <<>>]
     \/ details' = [done |-> TRUE, err |-> FALSE, Files |-> FilesOf(changes)]
  /\ pc' = "detailed"
  /\ UNCHANGED <<now, argv, cfgFile, cfg, caller, ctx, filter, args, repo, refs, src,
                 output, cursor, commits, result, nav, gitRuns, timeIn, timeOut, loads, mut,
                 graphIn, graphOut, changes>>

Next ==
  \/ MainConfig
  \/ MainFilter
  \/ SimpleAppRun
  \/ NavigatorLoad
  \/ GetCommitsArgs
  \/ GetCommitsExec
  \/ ScanLine
  \/ GenerateGraph
  \/ AddRefs
  \/ Deliver
  \/ InvokeReset
  \/ Confirm
  \/ Cancel

Spec == Init /\ [][Next]_vars

NextParse == ScanLine \/ GenerateGraph \/ AddRefs

SpecParse == InitParse /\ [][NextParse]_vars

NextTime == ParseTimeCall

SpecTime == InitTime /\ [][NextTime]_vars

NextLoads ==
  \/ NavigatorLoad
  \/ GetCommitsArgs
  \/ GetCommitsExec
  \/ ScanLine
  \/ GenerateGraph
  \/ AddRefs
  \/ Deliver
  \/ ApplyFilter

SpecLoads == InitLoads /\ [][NextLoads]_vars

NextMutate == MutationStart \/ MutationFinish

SpecMutate == InitMutate /\ [][NextMutate]_vars

NextArgs == MainFilter \/ SimpleAppRun \/ GetCommitsArgs

SpecArgs == InitArgs /\ [][NextArgs]_vars

NextDetails == GetCommitDetails

SpecDetails == InitDetails /\ [][NextDetails]_vars

NextGraph == ParseGraphCall

SpecGraph == InitGraph /\ [][NextGraph]_vars

(***************************************************************************)
(* Properties.                                                             *)
(***************************************************************************)
\* the rows that came from line k of the output
RowsOfLine(k) == {i \in 1..Len(commits) : commits[i].Line = k}

\* the lines the scanner has been through
Scanned == 1..(cursor - 1)

\* a commit line as git writes it: the identifier is there
GitCommitLine(ln) == ln.kind = "commit" /\ ln.commit.Hash # <<>>

FieldsMatch(row, c) ==
  /\ row.Hash = c.Hash
  /\ row.ShortHash = c.ShortHash
  /\ row.Author = c.Author
  /\ row.Email = c.Email
  /\ row.Date = c.Date
  /\ row.Message = c.Message
  /\ row.Parents = c.Parents

\* C1: every commit line of git log --graph --pretty=format:%H|%h|%an|%ae|%ad|%s|%P
\* that the scanner has been through yields exactly one Commit, whose Hash,
\* ShortHash, Author, Email, Date, Message and Parents are the fields of the
\* line, whatever the graph prefix and the subject are.
C1_EveryCommitLineParsed ==
  \A k \in Scanned :
    GitCommitLine(src[k]) =>
      /\ Cardinality(RowsOfLine(k)) = 1
      /\ \A i \in RowsOfLine(k) : FieldsMatch(commits[i], src[k].commit)

ArgsBuilt == args # <<>>

InOptions(a) == IndexOf(Options(args), a) # 0

\* C2: once the command line is built, every filter that is set is among the
\* options of git log (before any "--"), MaxCommits = N > 0 is the cap git
\* applies, and the text git writes holds at most N commits.
C2_FiltersTakeEffect ==
  ArgsBuilt =>
    /\ filter.Since.set => InOptions(ArgSince)
    /\ filter.Until.set => InOptions(ArgUntil)
    /\ filter.Range # <<>> => InOptions(filter.Range)
    /\ filter.MaxCommits > 0 => EffectiveCap(args) = filter.MaxCommits
    /\ filter.MaxCommits > 0 /\ pc = "scan" => CommitCount(src) <= filter.MaxCommits

\* C3: SimpleApp.Run never panics: its GetCommits call gets to run git log, and
\* Run ends by returning nil or an error.
C3_RunNeverPanics == caller = "Run" => pc # "panic"

ResetCommand(target) == [cmd |-> "reset", opt |-> "--hard", rev |-> target]

Duration(s) ==
  CASE s = <<"2", "w">> -> 14 * MinutesPerDay
    [] s = <<"1", "w">> -> 7 * MinutesPerDay
    [] s = <<"3", "d">> -> 3 * MinutesPerDay
    [] s = <<"2", "d">> -> 2 * MinutesPerDay
    [] s = <<"1", "d">> -> MinutesPerDay
    [] s = <<"4", "8", "h">> -> 48 * 60
    [] s = <<"1", "2", "h">> -> 12 * 60
    [] s = <<"6", "h">> -> 6 * 60
    [] s = <<"1", "h">> -> 60
    [] OTHER -> 0

\* C5: parseTime accepts every relative duration of the documentation and
\* returns the current time minus that duration.
C5_RelativeFromNow ==
  timeOut.done /\ timeIn \in RelativeInputs =>
    timeOut.ok /\ timeOut.t = now - Duration(timeIn)

\* a linear history as git log --graph writes it: commits in the first lane,
\* at most one parent each
Linear(history) ==
  \A k \in 1..Len(history) :
    /\ GitCommitLine(history[k])
    /\ history[k].prefix = PStar
    /\ Len(history[k].commit.Parents) <= 1

\* C6: with a cap N > 0 in effect on a linear history of more than N commits,
\* GetCommits returns exactly N rows and the last one holds a boundary
\* connector, a kind of its own.
C6_CapRowsAndBoundary ==
  /\ pc = "returned"
  /\ result.err = ""
  /\ Linear(repo)
  /\ EffectiveCap(args) > 0
  /\ CommitCount(repo) > EffectiveCap(args)
  => /\ Len(commits) = EffectiveCap(args)
     /\ \E g \in {commits[Len(commits)].Graph[j] : j \in 1..Len(commits[Len(commits)].Graph)} :
          g.Type = "GraphLineBoundary" /\ g.Type \notin GraphLineTypes

GraphDone == pc \in {"refs", "returned", "idle", "exit"}

\* C7: for a linear history, every row after generateGraph has lane 0 and its
\* connectors are vertical segments (the commit marker is one) or empty
\* columns: no horizontal, corner or merge connector.
C7_LinearLaneZero ==
  GraphDone /\ Linear(src) =>
    \A i \in 1..Len(commits) :
      /\ commits[i].Lane = 0
      /\ \A j \in 1..Len(commits[i].Graph) :
           commits[i].Graph[j].Type \in {"GraphLineVertical", "GraphLineNone"}

\* C7 witness: a linear history of which two rows were built and laid out.
C7_Witness == GraphDone /\ Linear(src) /\ Len(commits) >= 2

MergeConnectors(row) == {j \in 1..Len(row.Graph) : row.Graph[j].Merge}

\* C8: the row of a commit with two parents has exactly one merge connector,
\* the row of a commit with fewer parents has none.
C8_OneMergeConnector ==
  \A i \in 1..Len(commits) :
    LET n == Len(src[commits[i].Line].commit.Parents)
    IN /\ n = 2 => Cardinality(MergeConnectors(commits[i])) = 1
       /\ n < 2 => MergeConnectors(commits[i]) = {}

\* C9: a record without identifier never yields a row, no row has an empty
\* hash, and the commit lines that follow such a record yield their rows.
C9_MalformedSkipped ==
  /\ \A i \in 1..Len(commits) :
       /\ src[commits[i].Line].commit.Hash # <<>>
       /\ commits[i].Hash # <<>>
  /\ \A k \in Scanned :
       /\ GitCommitLine(src[k])
       /\ \E j \in 1..(k - 1) : src[j].kind = "commit" /\ src[j].commit.Hash = <<>>
       => RowsOfLine(k) # {}

\* what the scanner loop makes of each line of the output
ParsedOutput == [k \in 1..Len(output) |-> ParseLine(output[k], k)]

\* C10: the rows are in the order of the lines they came from, no line yields
\* two rows, and after generateGraph and addRefs the list still holds one row
\* for each line that parsed, with the hash parsed from it.
C10_RowsInSourceOrder ==
  LET parsed == ParsedOutput
      lines == {k \in 1..Len(output) : parsed[k].ok}
  IN /\ \A i, j \in 1..Len(commits) : i < j => commits[i].Line < commits[j].Line
     /\ \A i \in 1..Len(commits) : commits[i].Line \in Scanned \cap lines
     /\ GraphDone /\ result.err = "" =>
          /\ {commits[i].Line : i \in 1..Len(commits)} = lines
          /\ \A i \in 1..Len(commits) :
               commits[i].Hash = parsed[commits[i].Line].commit.Hash

\* C10 witness: GetCommits returned three rows.
C10_Witness == pc = "returned" /\ result.err = "" /\ Len(commits) >= 3

\* GetCommits holds the rows of its call: generateGraph is done and no error
\* has ended the call
RowsReady == pc = "refs" \/ (pc \in {"returned", "idle"} /\ result.err = "")

\* two row sequences with the same length and, index by index, the same
\* Hash, Parents, Lane and connector list
SameRows(a, b) ==
  /\ Len(a) = Len(b)
  /\ \A i \in 1..Len(a) :
       /\ a[i].Hash = b[i].Hash
       /\ a[i].Parents = b[i].Parents
       /\ a[i].Lane = b[i].Lane
       /\ a[i].Graph = b[i].Graph

\* C11: parseGitLog followed by generateGraph on a text that an earlier call
\* has already parsed yields the same rows as that call: the same length and,
\* for each index, the same Hash, Parents, Lane and connector list.
C11_Deterministic ==
  RowsReady =>
    \A k \in 1..Len(loads) : loads[k].output = output => SameRows(loads[k].rows, commits)

\* C11 witness: a second call has parsed the text of the first call, and there
\* are rows with connectors to compare.
C11_Witness ==
  /\ pc = "refs"
  /\ Len(loads) >= 1
  /\ loads[1].output = output
  /\ Len(commits) >= 2
  /\ \E i \in 1..Len(commits) : commits[i].Graph # <<>>

\* the rows of a text parsed on its own
RECURSIVE Collect(_, _)
Collect(out, k) ==
  IF k > Len(out) THEN <<>>
  ELSE LET r == ParseLine(out[k], k)
       IN (IF r.ok THEN <<r.commit>> ELSE <<>>) \o Collect(out, k + 1)

FreshRows(out) == generateGraph(Collect(out, 1))

WithoutRefs(cs) == [i \in 1..Len(cs) |-> [cs[i] EXCEPT !.Refs = {}]]

ReadAhead == ViewRows

\* C16: without a cap, the rows GetCommits builds are at most the rows of the
\* view plus the read-ahead margin, however long the history is.
C16_MaterializedBounded ==
  filter.MaxCommits = 0 => Len(commits) <= ViewRows + ReadAhead

\* what the documentation supports: the absolute dates, the relative durations
Supported(s) == s \in AbsoluteInputs \/ Duration(s) # 0

\* C13: parseTime returns an error for every string that is neither an
\* absolute date in a supported format nor a supported relative duration.
C13_InvalidRejected == timeOut.done /\ ~Supported(timeIn) => ~timeOut.ok

\* the syntax of a rev range: not empty, and not an option
ValidRange(r) == r # <<>> /\ Head(r) # "-"

\* C14: a --range value that is not a rev range is rejected before a git log
\* command is built: the program does not get past its start and no argument
\* list exists.
C14_RangeValidated ==
  argv.range # <<>> /\ ~ValidRange(argv.range) =>
    /\ pc \in {"start", "times", "fatal"}
    /\ args = <<>>

\* C15: at most one git command of the mutation methods runs at any time.
C15_OneMutationAtATime == Cardinality({c \in Callers : mut[c].pc = "running"}) <= 1

\* the hash a reference resolves to, through its target when it is symbolic
Resolve(rs, r) ==
  IF r.kind = "hash" THEN r.hash ELSE (CHOOSE q \in rs : q.name = r.target).hash

PointingAt(rs, hash) == {r.name : r \in {q \in rs : Resolve(rs, q) = hash}}

\* C17: after GetCommits, the Refs of every row are exactly the names of the
\* references that point at the commit of its line, HEAD included.
C17_RefsExact ==
  pc = "returned" /\ result.err = "" =>
    \A i \in 1..Len(commits) :
      commits[i].Refs = PointingAt(refs, src[commits[i].Line].commit.Hash)

\* C18: the Lane of a row is the column of the '*' in the graph prefix of its
\* line.
C18_LaneIsMarkerColumn ==
  GraphDone =>
    \A i \in 1..Len(commits) :
      LET ln == src[commits[i].Line]
      IN GitCommitLine(ln) /\ IndexOf(ln.prefix, "*") # 0 =>
           commits[i].Lane = IndexOf(ln.prefix, "*") - 1

\* C19: parseGraphLine gives one connector per column, and the connectors
\* determine the graph prefix they were parsed from: no other prefix over the
\* alphabet has the same connectors.
C19_ConnectorsDeterminePrefix ==
  pc = "graphed" =>
    /\ Len(graphOut) = Len(graphIn)
    /\ \A q \in PrefixInputs : parseGraphLine(q) = graphOut => q = graphIn

\* C20: a field the configuration file does not mention has its Default()
\* value after Load; without --yes, ConfirmDangerous is then true.
C20_LoadKeepsDefaults ==
  /\ pc # "start" /\ cfgFile.state = "ok" /\ "style" \notin cfgFile.keys =>
       cfg.Style = DefaultConfig.Style
  /\ pc # "start" /\ cfgFile.state = "ok" /\ "confirmDangerous" \notin cfgFile.keys
       /\ ~argv.yes =>
       cfg.ConfirmDangerous = DefaultConfig.ConfirmDangerous

\* the argument that follows a key of the command line
ArgAfter(a, key) == a[IndexOf(a, key) + 1]

\* the instants parseTime makes of the other date inputs that are less than a
\* day away from t
NearInstants(t) ==
  {r.t : r \in {q \in {parseTime(s, now) : s \in TimeInputs} :
                  q.ok /\ q.t # t /\ q.t - t < MinutesPerDay /\ t - q.t < MinutesPerDay}}

\* C21: the --since and --until arguments GetCommits builds identify the
\* instants of the filter: an instant less than a day away from the filter's
\* never gives the same argument.
C21_BoundsKeepInstant ==
  pc = "exec" =>
    /\ filter.Since.set =>
         /\ IndexOf(args, ArgSince) # 0
         /\ \A t \in NearInstants(filter.Since.t) : FormatDate(t) # ArgAfter(args, ArgSince)
    /\ filter.Until.set =>
         /\ IndexOf(args, ArgUntil) # 0
         /\ \A t \in NearInstants(filter.Until.t) : FormatDate(t) # ArgAfter(args, ArgUntil)

\* the paths the commit changed
ChangedPaths ==
  ({changes[k].From.Name : k \in 1..Len(changes)}
     \cup {changes[k].To.Name : k \in 1..Len(changes)}) \ {""}

\* C22: when GetCommitDetails has collected the changes, Files holds every
\* path the commit changed, and no path twice.
C22_FilesOnce ==
  details.done /\ ~details.err /\ details.Files # <<>> =>
    /\ {details.Files[i] : i \in 1..Len(details.Files)} = ChangedPaths
    /\ \A i, j \in 1..Len(details.Files) : i # j => details.Files[i] # details.Files[j]

====
